---- MODULE Spec2Model ----
(***************************************************************************)
(* Model of src/server.ts: the summary relay (request gate, summarization  *)
(* proxy, persistence sink).  The file holds two variants of the server:   *)
(*   "fireAndForget"  lines 1-138   (access-token gate, truncation,        *)
(*                                   detached persistence write)           *)
(*   "awaiting"       lines 139-259 (id-token gate, no truncation,         *)
(*                                   awaited persistence write)            *)
(* A process runs one of them; the variant is fixed at start-up.           *)
(*                                                                         *)
(* Node runs each handler to its next await without interruption, so one   *)
(* action is one such run: the arrival of a request, the answer of the     *)
(* identity provider, the answer of the summarization provider, the        *)
(* completion of a connect, the completion of an insert.                   *)
(***************************************************************************)
EXTENDS Integers, Sequences, FiniteSets, TLC

\* ---------------------------------------------------------------- bounds
NumReqs == 2          \* concurrent requests
MaxOver == 1          \* the long input text has maxLength + MaxOver characters

\* ------------------------------------------------------ program constants
maxLength == 4000     \* server.ts:71
NullClient == 0       \* server.ts:25  let mongoClient = null

Reqs == 1..NumReqs
Undef == "undefined"
Variants == {"fireAndForget", "awaiting"}

\* ------------------------------------------------------------------ text
\* A string is kept in run-length form: a sequence of runs [ch, n], no two
\* neighbouring runs with the same ch.  Length, substring and concatenation
\* are computed on the runs.
RECURSIVE StrLen(_)
StrLen(s) ==
  IF s = <<>> THEN 0 ELSE Head(s).n + StrLen(Tail(s))

\* text.substring(0, k)
RECURSIVE Substring0(_, _)
Substring0(s, k) ==
  IF k <= 0 \/ s = <<>> THEN <<>>
  ELSE IF Head(s).n <= k
       THEN <<Head(s)>> \o Substring0(Tail(s), k - Head(s).n)
       ELSE <<[ch |-> Head(s).ch, n |-> k]>>

\* a + b
Concat(a, b) ==
  IF a = <<>> THEN b
  ELSE IF b = <<>> THEN a
  ELSE IF a[Len(a)].ch = Head(b).ch
       THEN SubSeq(a, 1, Len(a) - 1)
            \o <<[ch |-> Head(b).ch, n |-> a[Len(a)].n + Head(b).n]>>
            \o Tail(b)
       ELSE a \o b

Ellipsis == <<[ch |-> ".", n |-> 3]>>

\* The input texts: n-1 times "a", then one "b".
Str(n) ==
  IF n = 1 THEN <<[ch |-> "b", n |-> 1]>>
  ELSE <<[ch |-> "a", n |-> n - 1], [ch |-> "b", n |-> 1]>>

TextLens == {maxLength, maxLength + MaxOver}
Texts == {Str(n) : n \in TextLens}

\* server.ts:72-74
TrimText(text) ==
  IF StrLen(text) > maxLength
  THEN Concat(Substring0(text, maxLength), Ellipsis)
  ELSE text

\* The text embedded in the outbound prompt: server.ts:86 (trimmedText) and
\* server.ts:216 (text).
PromptText(v, text) ==
  IF v = "fireAndForget" THEN TrimText(text) ELSE text


\* ------------------------------------------------------------ collaborators
\* What the identity provider can answer to the one verification call:
\* the call fails ("throw"), a non-success response ("notok"), a success
\* that carries no claims at all ("nopayload"), or claims, each of which may
\* be missing.
IdpAnswers ==
  {[kind |-> k, sub |-> Undef, email |-> Undef] : k \in {"throw", "notok", "nopayload"}}
  \cup {[kind |-> "claims", sub |-> s, email |-> e] :
          s \in {Undef, "sub-1"}, e \in {Undef, "a@x.org"}}

\* What the summarization provider can answer: the call fails ("throw") or a
\* response with a status (ok or not) and a JSON body of some shape.
Shapes == {"noCandidates", "noContent", "noParts", "noText", "full"}
LlmAnswers ==
  {[kind |-> "throw", ok |-> FALSE, shape |-> "noCandidates"]}
  \cup {[kind |-> "resp", ok |-> FALSE, shape |-> "full"]}
  \cup {[kind |-> "resp", ok |-> TRUE, shape |-> sh] : sh \in Shapes}

\* The JSON body of each shape.
Data(shape) ==
  CASE shape = "noCandidates" -> [promptFeedback |-> "blocked"]
    [] shape = "noContent"    -> [candidates |-> <<[finishReason |-> "SAFETY"]>>]
    [] shape = "noParts"      -> [candidates |-> <<[content |-> [role |-> "model"]]>>]
    [] shape = "noText"       ->
         [candidates |-> <<[content |-> [parts |-> <<[inlineData |-> "bytes"]>>]]>>]
    [] shape = "full"         ->
         [candidates |-> <<[content |-> [parts |-> <<[text |-> "a summary"]>>]]>>]

\* data.candidates[0].content.parts[0].text  (server.ts:103, 235, 239).
\* Reading a property of undefined throws a TypeError; reading a property an
\* object does not have gives undefined.
ExtractSummary(data) ==
  IF "candidates" \notin DOMAIN data THEN [threw |-> TRUE, value |-> Undef]
  ELSE IF Len(data.candidates) = 0 THEN [threw |-> TRUE, value |-> Undef]
  ELSE LET c == data.candidates[1] IN
    IF "content" \notin DOMAIN c THEN [threw |-> TRUE, value |-> Undef]
    ELSE IF "parts" \notin DOMAIN c.content THEN [threw |-> TRUE, value |-> Undef]
    ELSE IF Len(c.content.parts) = 0 THEN [threw |-> TRUE, value |-> Undef]
    ELSE LET p == c.content.parts[1] IN
      IF "text" \in DOMAIN p THEN [threw |-> FALSE, value |-> p.text]
      ELSE [threw |-> FALSE, value |-> Undef]

\* -------------------------------------------------------------------- state
VARIABLES
  variant,       \* which variant of server.ts the process runs
  storeAccepts,  \* environment: the store accepts every connect and insert
  mongoClient,   \* server.ts:25  the shared handle (NullClient or a handle id)
  handles,       \* every MongoClient constructed so far: its connect state
  store,         \* the summaries collection: the records inserted
  pc,            \* per request: where its handling stands
  hdr,           \* req.headers.authorization
  text,          \* req.body.text, drawn where the handler first reads it
  userId,        \* req.body.userId
  email,         \* req.body.email
  res,           \* the response sent
  idpCalls,      \* calls made to the identity provider
  idpAns,        \* what the identity provider answered
  entered,       \* next() was called: the route handler ran
  prompt,        \* the call made to the summarization provider
  llmAns,        \* what the summarization provider answered
  mongoCalls,    \* calls of getMongoClient
  awaiting,      \* the handle whose connect() the request's getMongoClient awaits
  given,         \* the handle getMongoClient resolved with
  insertOn,      \* connect state of that handle when insertOne was called
  doc,           \* the document passed to insertOne
  bg,            \* the detached persistence task (fireAndForget)
  logs           \* console.error lines

vars == <<variant, storeAccepts, mongoClient, handles, store, pc, hdr, text,
          userId, email, res, idpCalls, idpAns, entered, prompt, llmAns,
          mongoCalls, awaiting, given, insertOn, doc, bg, logs>>

NoRes == [status |-> 0, error |-> Undef, summary |-> Undef]
Unauthorized(msg) == [status |-> 401, error |-> msg, summary |-> Undef]
ServerError == [status |-> 500, error |-> "Failed to generate summary", summary |-> Undef]
Ok(summary) == [status |-> 200, error |-> Undef, summary |-> summary]

Init ==
  /\ variant \in Variants
  /\ storeAccepts \in BOOLEAN
  /\ mongoClient = NullClient
  /\ handles = <<>>
  /\ store = <<>>
  /\ pc = [r \in Reqs |-> "idle"]
  /\ hdr = [r \in Reqs |-> Undef]
  /\ text = [r \in Reqs |-> <<>>]
  /\ userId = [r \in Reqs |-> Undef]
  /\ email = [r \in Reqs |-> Undef]
  /\ res = [r \in Reqs |-> NoRes]
  /\ idpCalls = [r \in Reqs |-> 0]
  /\ idpAns = [r \in Reqs |-> <<>>]
  /\ entered = [r \in Reqs |-> FALSE]
  /\ prompt = [r \in Reqs |-> <<>>]
  /\ llmAns = [r \in Reqs |-> <<>>]
  /\ mongoCalls = [r \in Reqs |-> 0]
  /\ awaiting = [r \in Reqs |-> NullClient]
  /\ given = [r \in Reqs |-> NullClient]
  /\ insertOn = [r \in Reqs |-> Undef]
  /\ doc = [r \in Reqs |-> <<>>]
  /\ bg = [r \in Reqs |-> "none"]
  /\ logs = [r \in Reqs |-> {}]

\* ------------------------------------------------------------- request gate
\* The gate without its header check: every request goes on to verification.
MissingAuthHeader_NoCheck(h) == FALSE

\* server.ts:38, 176   if (!authHeader)
MissingAuthHeader(h) == h = Undef

\* verifyGoogleToken reaches next().
\* fireAndForget (server.ts:46-58): the tokeninfo fetch resolved, response.ok,
\* and data.email is present; data.sub is not looked at.
\* awaiting (server.ts:182-194): verifyIdToken resolved and the ticket has a
\* payload; neither payload.sub nor payload.email is looked at.
GateAdmits(v, ans) ==
  IF v = "fireAndForget"
  THEN ans.kind = "claims" /\ ans.email # Undef
  ELSE ans.kind = "claims"

\* A request arrives: verifyGoogleToken runs to its first await
\* (server.ts:36-46, 174-184).
Arrive(r) ==
  /\ pc[r] = "idle"
  /\ IF r = 1 THEN TRUE ELSE pc[r - 1] # "idle"   \* numbered as they arrive
  /\ \E h \in {Undef, "Bearer tok"} :
       /\ hdr' = [hdr EXCEPT ![r] = h]
       /\ IF MissingAuthHeader(h)
          THEN /\ res' = [res EXCEPT ![r] = Unauthorized("No authorization header")]
               /\ pc' = [pc EXCEPT ![r] = "done"]
               /\ UNCHANGED idpCalls
          ELSE /\ idpCalls' = [idpCalls EXCEPT ![r] = @ + 1]
               /\ pc' = [pc EXCEPT ![r] = "verify"]
               /\ UNCHANGED res
  /\ UNCHANGED <<variant, storeAccepts, mongoClient, handles, store, text, userId,
                 email, idpAns, entered, prompt, llmAns, mongoCalls, awaiting, given,
                 insertOn, doc, bg, logs>>

\* The prompt of the one call to the summarization provider
\* (server.ts:77-96, 207-220).
PromptOf(v, t) ==
  [instr |-> IF v = "fireAndForget"
             THEN "Provide a very concise summary of this text (max 250 words): "
             ELSE "Please provide a concise summary of the following text: ",
   text |-> PromptText(v, t)]

\* The identity provider answers: the gate rejects (server.ts:59-62,
\* 195-198) or sets the two body fields and calls next(), and the route
\* handler runs to its fetch (server.ts:56-58, 66-96; 192-194, 202-220).
IdpRespondWith(r, answers, texts) ==
  /\ pc[r] = "verify"
  /\ \E ans \in answers, t \in texts :
       /\ idpAns' = [idpAns EXCEPT ![r] = <<ans>>]
       /\ IF GateAdmits(variant, ans)
          THEN /\ text' = [text EXCEPT ![r] = t]     \* server.ts:68, 204
               /\ userId' = [userId EXCEPT ![r] = ans.sub]
               /\ email' = [email EXCEPT ![r] = ans.email]
               /\ entered' = [entered EXCEPT ![r] = TRUE]
               /\ prompt' = [prompt EXCEPT ![r] = <<PromptOf(variant, t)>>]
               /\ pc' = [pc EXCEPT ![r] = "gemini"]
               /\ UNCHANGED <<res, logs>>
          ELSE /\ res' = [res EXCEPT ![r] = Unauthorized("Invalid token")]
               /\ logs' = [logs EXCEPT ![r] = @ \cup {"Token verification error:"}]
               /\ pc' = [pc EXCEPT ![r] = "done"]
               /\ UNCHANGED <<text, userId, email, entered, prompt>>
  /\ UNCHANGED <<variant, storeAccepts, mongoClient, handles, store, hdr,
                 idpCalls, llmAns, mongoCalls, awaiting, given, insertOn, doc, bg>>


IdpRespond(r) == IdpRespondWith(r, IdpAnswers, Texts)

\* The same step with an identity provider whose claims, when it returns
\* claims, are complete.
IdpRespondCompleteClaims(r) ==
  IdpRespondWith(r,
                 {a \in IdpAnswers : a.kind = "claims" => a.sub # Undef /\ a.email # Undef},
                 Texts)

\* --------------------------------------------------------- persistence sink
\* getMongoClient that also makes a new handle when the shared one is not
\* connected (a reconnect on first-use races and on failure).
NeedsNewHandle_Reconnect ==
  IF mongoClient = NullClient THEN TRUE ELSE handles[mongoClient] # "connected"

\* server.ts:28, 166   if (!mongoClient)
NeedsNewHandle == mongoClient = NullClient

\* The handle a call of getMongoClient ends up with: the one it constructs
\* (server.ts:29, 167) or the shared one (server.ts:32, 170).
HandleOfCall == IF NeedsNewHandle THEN Len(handles) + 1 ELSE mongoClient

\* getMongoClient up to its await (server.ts:27-30, 165-168): on a null
\* mongoClient it constructs a handle, assigns it and starts connect().
GetMongoClientStart ==
  IF NeedsNewHandle
  THEN /\ handles' = Append(handles, "pending")
       /\ mongoClient' = Len(handles) + 1
  ELSE UNCHANGED <<handles, mongoClient>>

\* The document of insertOne (server.ts:108-114, 231-237), without its
\* timestamp.
DocOf(r, t, summary) ==
  [req |-> r, userId |-> userId[r], email |-> email[r], text |-> t, summary |-> summary]

\* The handler without its status check: any response is read as a success.
ResponseOk_StatusIgnored(ans) == ans.kind = "resp"

\* The response is a success of the provider (server.ts:98, 222).
ResponseOk(ans) == ans.kind = "resp" /\ ans.ok

\* fireAndForget, server.ts:98-122: the provider's answer arrives.  On
\* success the handler reads the summary, calls getMongoClient, and sends the
\* response.  A getMongoClient that found the shared handle resolves at once
\* and its then-callback calls insertOne before anything else can happen;
\* one that constructed the handle stays pending until connect() completes.
GeminiRespondDetached(r, ans) ==
  LET ex == ExtractSummary(Data(ans.shape)) IN
  IF ~ResponseOk(ans) \/ ex.threw
  THEN /\ res' = [res EXCEPT ![r] = ServerError]
       /\ logs' = [logs EXCEPT ![r] = @ \cup {"Summary generation error:"}]
       /\ UNCHANGED <<mongoClient, handles, mongoCalls, awaiting, given, insertOn,
                      doc, bg>>
  ELSE /\ mongoCalls' = [mongoCalls EXCEPT ![r] = @ + 1]
       /\ GetMongoClientStart
       /\ IF NeedsNewHandle
          THEN /\ awaiting' = [awaiting EXCEPT ![r] = HandleOfCall]
               /\ bg' = [bg EXCEPT ![r] = "connecting"]
               /\ UNCHANGED <<given, insertOn, doc>>
          ELSE /\ given' = [given EXCEPT ![r] = HandleOfCall]
               /\ insertOn' = [insertOn EXCEPT ![r] = handles[HandleOfCall]]
               /\ doc' = [doc EXCEPT ![r] = <<DocOf(r, prompt[r][1].text, ex.value)>>]
               /\ bg' = [bg EXCEPT ![r] = "inserting"]
               /\ UNCHANGED awaiting
       /\ res' = [res EXCEPT ![r] = Ok(ex.value)]
       /\ UNCHANGED logs

\* awaiting, server.ts:229-243, once getMongoClient has resolved with handle
\* h: the argument of insertOne is evaluated, which throws on a body without
\* the path to the first part, and insertOne is called and awaited.
InsertAwaited(r, ans, hstate) ==
  LET ex == ExtractSummary(Data(ans.shape)) IN
  IF ex.threw
  THEN /\ res' = [res EXCEPT ![r] = ServerError]
       /\ logs' = [logs EXCEPT ![r] = @ \cup {"Summary generation error:"}]
       /\ pc' = [pc EXCEPT ![r] = "done"]
       /\ UNCHANGED <<insertOn, doc>>
  ELSE /\ insertOn' = [insertOn EXCEPT ![r] = hstate]
       /\ doc' = [doc EXCEPT ![r] = <<DocOf(r, text[r], ex.value)>>]
       /\ pc' = [pc EXCEPT ![r] = "insert"]
       /\ UNCHANGED <<res, logs>>

\* awaiting, server.ts:222-243: the provider's answer arrives.
GeminiRespondAwaited(r, ans) ==
  IF ~ResponseOk(ans)
  THEN /\ res' = [res EXCEPT ![r] = ServerError]
       /\ logs' = [logs EXCEPT ![r] = @ \cup {"Summary generation error:"}]
       /\ pc' = [pc EXCEPT ![r] = "done"]
       /\ UNCHANGED <<mongoClient, handles, mongoCalls, awaiting, given, insertOn, doc>>
  ELSE /\ mongoCalls' = [mongoCalls EXCEPT ![r] = @ + 1]
       /\ GetMongoClientStart
       /\ IF NeedsNewHandle
          THEN /\ awaiting' = [awaiting EXCEPT ![r] = HandleOfCall]
               /\ pc' = [pc EXCEPT ![r] = "connect"]
               /\ UNCHANGED <<given, insertOn, doc, res, logs>>
          ELSE /\ given' = [given EXCEPT ![r] = HandleOfCall]
               /\ InsertAwaited(r, ans, handles[HandleOfCall])
               /\ UNCHANGED awaiting

\* The summarization provider answers (or the fetch fails).
GeminiRespond(r) ==
  /\ pc[r] = "gemini"
  /\ \E ans \in LlmAnswers :
       /\ llmAns' = [llmAns EXCEPT ![r] = <<ans>>]
       /\ IF variant = "fireAndForget"
          THEN /\ GeminiRespondDetached(r, ans)
               /\ pc' = [pc EXCEPT ![r] = "done"]
          ELSE /\ GeminiRespondAwaited(r, ans)
               /\ UNCHANGED bg
  /\ UNCHANGED <<variant, storeAccepts, store, hdr, text, userId, email, idpCalls,
                 idpAns, entered, prompt>>

\* What a connect() can end with: a store that accepts connects it.
ConnectOutcomes == IF storeAccepts THEN {TRUE} ELSE BOOLEAN

\* connect() of the handle a getMongoClient waits for completes
\* (server.ts:30-32, 168-170).  On success getMongoClient resolves with the
\* handle and its caller goes on (server.ts:106-115; 229-237).  On failure
\* it rejects: in fireAndForget the promise of .then(...) has no rejection
\* handler (server.ts:106-115), in awaiting the handler's catch answers 500
\* (server.ts:240-243).  mongoClient keeps the handle either way.
ConnectComplete(r) ==
  /\ awaiting[r] # NullClient
  /\ handles[awaiting[r]] = "pending"
  /\ (bg[r] = "connecting" \/ pc[r] = "connect")
  /\ \E ok \in ConnectOutcomes :
       /\ handles' = [handles EXCEPT ![awaiting[r]] = IF ok THEN "connected" ELSE "failed"]
       /\ IF ok
          THEN /\ given' = [given EXCEPT ![r] = awaiting[r]]
               /\ IF variant = "fireAndForget"
                  THEN /\ insertOn' = [insertOn EXCEPT ![r] = "connected"]
                       /\ doc' = [doc EXCEPT ![r] =
                                    <<DocOf(r, prompt[r][1].text, res[r].summary)>>]
                       /\ bg' = [bg EXCEPT ![r] = "inserting"]
                       /\ UNCHANGED <<pc, res, logs>>
                  ELSE /\ InsertAwaited(r, llmAns[r][1], "connected")
                       /\ UNCHANGED bg
          ELSE /\ IF variant = "fireAndForget"
                  THEN /\ bg' = [bg EXCEPT ![r] = "unhandledRejection"]
                       /\ UNCHANGED <<pc, res, logs>>
                  ELSE /\ res' = [res EXCEPT ![r] = ServerError]
                       /\ logs' = [logs EXCEPT ![r] = @ \cup {"Summary generation error:"}]
                       /\ pc' = [pc EXCEPT ![r] = "done"]
                       /\ UNCHANGED bg
               /\ UNCHANGED <<given, insertOn, doc>>
  /\ UNCHANGED <<variant, storeAccepts, mongoClient, store, hdr, text, userId, email,
                 idpCalls, idpAns, entered, prompt, llmAns, mongoCalls, awaiting>>

\* What an insertOne can end with.  On a connected handle a store that
\* accepts inserts it.  On a handle that was not connected when insertOne was
\* called the driver decides: it connects by itself or it rejects the
\* operation; the repository does not fix the driver, both can happen.
InsertOutcomes(hstate) ==
  IF hstate = "connected" /\ storeAccepts THEN {TRUE} ELSE BOOLEAN

\* insertOne completes.  fireAndForget: a rejection is logged by the .catch
\* (server.ts:114).  awaiting: the response is sent after the insert
\* (server.ts:239), a rejection goes to the handler's catch (server.ts:240-243).
InsertComplete(r) ==
  /\ doc[r] # <<>>
  /\ (bg[r] = "inserting" \/ pc[r] = "insert")
  /\ \E ok \in InsertOutcomes(insertOn[r]) :
       /\ store' = IF ok THEN Append(store, doc[r][1]) ELSE store
       /\ IF variant = "fireAndForget"
          THEN /\ bg' = [bg EXCEPT ![r] = IF ok THEN "stored" ELSE "logged"]
               /\ logs' = [logs EXCEPT ![r] = IF ok THEN @ ELSE @ \cup {"MongoDB error:"}]
               /\ UNCHANGED <<pc, res>>
          ELSE /\ res' = [res EXCEPT ![r] = IF ok THEN Ok(doc[r][1].summary) ELSE ServerError]
               /\ logs' = [logs EXCEPT ![r] =
                             IF ok THEN @ ELSE @ \cup {"Summary generation error:"}]
               /\ pc' = [pc EXCEPT ![r] = "done"]
               /\ UNCHANGED bg
  /\ UNCHANGED <<variant, storeAccepts, mongoClient, handles, hdr, text, userId, email,
                 idpCalls, idpAns, entered, prompt, llmAns, mongoCalls, awaiting,
                 given, insertOn, doc>>

Next ==
  \E r \in Reqs :
    \/ Arrive(r)
    \/ IdpRespond(r)
    \/ GeminiRespond(r)
    \/ ConnectComplete(r)
    \/ InsertComplete(r)

Spec == Init /\ [][Next]_vars

\* The same program in front of an identity provider that returns complete
\* claims or none: all the control flow and all interleavings, with fewer
\* payloads to carry for each request.
NextCompleteClaims ==
  \E r \in Reqs :
    \/ Arrive(r)
    \/ IdpRespondCompleteClaims(r)
    \/ GeminiRespond(r)
    \/ ConnectComplete(r)
    \/ InsertComplete(r)

SpecCompleteClaims == Init /\ [][NextCompleteClaims]_vars


\* ==================================================================== claims
Arrived(r) == pc[r] # "idle"
RecordsOf(r) == {i \in 1..Len(store) : store[i].req = r}
\* The provider answered with a success whose body holds the summary text.
Summarized(r) ==
  /\ llmAns[r] # <<>>
  /\ llmAns[r][1].kind = "resp" /\ llmAns[r][1].ok /\ llmAns[r][1].shape = "full"
\* The request is answered and nothing of it is still running.
Settled(r) == pc[r] = "done" /\ bg[r] \notin {"connecting", "inserting"}

\* C1: a request without an Authorization header is answered 401
\* { error: "No authorization header" } and never causes an outbound call: no
\* identity-provider call, no summarization call, no getMongoClient, no
\* connect and no insert.
C1_NoHeaderNoCalls ==
  \A r \in Reqs :
    Arrived(r) /\ hdr[r] = Undef =>
      /\ res[r] = [status |-> 401, error |-> "No authorization header", summary |-> Undef]
      /\ idpCalls[r] = 0 /\ idpAns[r] = <<>>
      /\ prompt[r] = <<>> /\ llmAns[r] = <<>>
      /\ mongoCalls[r] = 0 /\ awaiting[r] = NullClient /\ given[r] = NullClient
      /\ doc[r] = <<>> /\ RecordsOf(r) = {}

\* A header-less request was answered while another request went all the
\* way to a stored record.
C1_Witness ==
  \E r, q \in Reqs :
    /\ hdr[r] = Undef /\ pc[r] = "done" /\ res[r].status = 401
    /\ q # r /\ RecordsOf(q) # {}

\* C2 (as stated): with an Authorization header, a non-success answer of the
\* identity provider, an answer lacking the subject identifier or the email,
\* or a failed verification call ends in 401 "Invalid token"; the route
\* handler is not entered, no summarization call and no write happen.
C2_FailClosed ==
  \A r \in Reqs :
    idpAns[r] # <<>>
      /\ (idpAns[r][1].kind # "claims" \/ idpAns[r][1].sub = Undef
            \/ idpAns[r][1].email = Undef) =>
      /\ res[r] = [status |-> 401, error |-> "Invalid token", summary |-> Undef]
      /\ ~entered[r] /\ prompt[r] = <<>> /\ mongoCalls[r] = 0 /\ doc[r] = <<>>

\* C3: when the summarization provider answers with a non-success status the
\* endpoint answers 500 "Failed to generate summary" and attempts no write:
\* getMongoClient is not called and no insert is issued.
C3_ProviderErrorNoWrite ==
  \A r \in Reqs :
    llmAns[r] # <<>> /\ llmAns[r][1].kind = "resp" /\ ~llmAns[r][1].ok =>
      /\ res[r] = [status |-> 500, error |-> "Failed to generate summary",
                   summary |-> Undef]
      /\ mongoCalls[r] = 0 /\ awaiting[r] = NullClient /\ given[r] = NullClient
      /\ doc[r] = <<>> /\ RecordsOf(r) = {}

\* An authenticated request got a non-success answer whose body would have
\* held a summary, while another request had its summary stored.
C3_Witness ==
  \E r, q \in Reqs :
    /\ entered[r] /\ llmAns[r] # <<>>
    /\ llmAns[r][1].kind = "resp" /\ ~llmAns[r][1].ok /\ llmAns[r][1].shape = "full"
    /\ pc[r] = "done"
    /\ q # r /\ RecordsOf(q) # {}

\* C4 (as stated): once the summarization has succeeded the 200 response
\* with the summary is sent, whatever the state of the connect and of the
\* insert: it does not wait for either.
C4_ResponseDoesNotWait ==
  \A r \in Reqs :
    Summarized(r) => res[r] = [status |-> 200, error |-> Undef, summary |-> "a summary"]

\* C5 (as stated): a persistence failure after a successful summarization,
\* in getMongoClient or in the insert, is caught and logged, never changes
\* the 200 response, and never escapes as an unhandled rejection.
C5_PersistenceFailureSwallowed ==
  \A r \in Reqs :
    Summarized(r) /\ Settled(r) =>
      /\ res[r].status = 200
      /\ bg[r] # "unhandledRejection"
      /\ (awaiting[r] # NullClient /\ handles[awaiting[r]] = "failed"
            => "MongoDB error:" \in logs[r])

\* C6 (as stated): the text in the prompt is the first 4000 characters of the
\* input followed by "..." when the input is longer than 4000 characters and
\* the input itself otherwise; the logged record carries that same text.
C6_PromptIsTruncated ==
  \A r \in Reqs :
    prompt[r] # <<>> =>
      /\ prompt[r][1].text =
           IF StrLen(text[r]) > maxLength
           THEN Concat(Substring0(text[r], maxLength), Ellipsis)
           ELSE text[r]
      /\ (doc[r] # <<>> => doc[r][1].text = prompt[r][1].text)

\* C7 (as stated): a success answer whose body deviates from the expected
\* shape (no candidates, no content, no parts, no text in the first part) is
\* never answered 200, ends in the generic 500, and issues no write.
C7_ShapeDeviationFails ==
  \A r \in Reqs :
    llmAns[r] # <<>> /\ llmAns[r][1].kind = "resp" /\ llmAns[r][1].ok
      /\ llmAns[r][1].shape # "full" =>
      /\ res[r].status # 200
      /\ doc[r] = <<>> /\ RecordsOf(r) = {}
      /\ (pc[r] = "done" =>
            res[r] = [status |-> 500, error |-> "Failed to generate summary",
                      summary |-> Undef])

C9_SingleHandle ==
  /\ [](/\ Len(handles) <= 1
        /\ \A r \in Reqs : given[r] # NullClient => given[r] = mongoClient)
  /\ [][mongoClient # NullClient => mongoClient' = mongoClient]_vars

\* Two requests used getMongoClient, the second while the first one's connect
\* was pending, and that connect has failed since.
C9_Witness ==
  \E r, q \in Reqs :
    /\ r # q /\ mongoCalls[r] = 1 /\ mongoCalls[q] = 1
    /\ awaiting[r] = 1 /\ handles = <<"failed">>
    /\ given[q] = 1 /\ insertOn[q] = "pending"

\* C10 (as stated): a handle getMongoClient resolves with has completed a
\* successful connect, and no insert is issued on a handle whose connect is
\* pending or has failed.
C10_HandleIsConnected ==
  \A r \in Reqs :
    /\ given[r] # NullClient => handles[given[r]] = "connected"
    /\ doc[r] # <<>> => insertOn[r] = "connected"

====
